---- MODULE Spec2Model ----
(***************************************************************************)
(* Trading decision-and-execution engine of solana-jupiter-bot.            *)
(*                                                                         *)
(* Three drivers of the engine are modelled, each with its own             *)
(* specification over the same variables:                                  *)
(*   SpecExecute  repeated, sequential calls of TradingStrategy.execute    *)
(*                (strategies/pingpong.ts, strategies/arbitrage.ts);       *)
(*   SpecTrading  the setInterval scheduler of runTrading driving          *)
(*                simulate/execute of the same strategies;                 *)
(*   SpecCache    the cache-driven cycles of                               *)
(*                strategies/ArbitrageStrategy.ts (execute(context)).      *)
(* The ping-pong strategy is modelled after strategies/pingpong.ts (quote   *)
(* API); its SDK twin has the same execute with one await fewer and the     *)
(* jupiter handle in place of the wallet in the guard.                     *)
(* Every await of the source is a suspension point: an action models the   *)
(* code that runs from the resolution (or rejection) of one await up to    *)
(* the next await or the end of the callback.                              *)
(*                                                                         *)
(* Numbers: token amounts are integers in atomic units (the default        *)
(* configuration has decimals 0); a percentage is kept as an exact         *)
(* fraction [n, d] and compared by cross-multiplication, where the source  *)
(* uses IEEE doubles.                                                      *)
(***************************************************************************)
EXTENDS Integers, Sequences, FiniteSets, TLC

\* ---------------------------------------------------------------- bounds
\* number of interval callbacks runTrading/runSimulation fire in a run
MaxCycles == 2
\* number of cache-driven cycles started in a run
MaxIter == 3
\* quoted output amounts range over tradeSize .. tradeSize + MaxSpread
MaxSpread == 2
\* the maxRetries argument of sendTransactionWithRetry ranges over 0 .. MaxBudget
MaxBudget == 4
\* number of registrations an event bus holds at a time, over all events
MaxListeners == 3

\* ------------------------------------------------------------- constants
\* ceiling of the error count (this.errorCount > 100)
ErrorLimit == 100
\* default of the maxRetries parameter of sendTransactionWithRetry
DefaultMaxRetries == 3

\* the loaded trading configuration (an input of the engine): trade size in
\* atomic units, minimum profit 0.1 percent as the fraction 1/10
config ==
  [ tradeSize |-> 1000, tradeSizeStrategy |-> "fixed",
    minPercProfit |-> [n |-> 1, d |-> 10], decimals |-> 0,
    inputToken |-> "tokenA", outputToken |-> "tokenB" ]

\* ------------------------------------------------------------ arithmetic
Pow10(k) == IF k = 0 THEN 1 ELSE IF k = 1 THEN 10 ELSE 100

\* Math.floor(amount * Math.pow(10, decimals))
toAtomic(amount, decimals) == amount * Pow10(decimals)

\* parseInt(outAmount) / Math.pow(10, decimals)
fromAtomic(atomic, decimals) == atomic \div Pow10(decimals)

Pct(num, den) == [n |-> num, d |-> den]
PctZero == Pct(0, 1)
PctGT(p, q) == p.n * q.d > q.n * p.d
PctGE(p, q) == p.n * q.d >= q.n * p.d

\* (profit / base) * 100 as written in simulate/execute of the strategies
profitPercentage(profit, base) == Pct(profit * 100, base)

\* utils calculateProfit(baseAmount, newAmount)
calculateProfit(base, newAmt) ==
  IF base <= 0 THEN PctZero ELSE Pct((newAmt - base) * 100, base)

\* ------------------------------------------------- external collaborators
\* what a quote request can do: raise a transport error, return zero routes,
\* or return routes whose first route has the given outAmount
OutAmounts == { config.tradeSize + k : k \in 0..MaxSpread }
QuoteOutcomes ==
  { [kind |-> "throw", out |-> 0], [kind |-> "none", out |-> 0] }
    \cup { [kind |-> "routes", out |-> a] : a \in OutAmounts }

\* what jupiter.computeRoutes can do for a cache-driven cycle: raise, return a
\* malformed response, or return a (possibly empty) list of route outAmounts
MaxRoutes == 3
RouteLists == UNION { [1..n -> OutAmounts] : n \in 0..MaxRoutes }
RoutesOutcomes ==
  { [kind |-> "throw", routesInfos |-> << >>],
    [kind |-> "malformed", routesInfos |-> << >>] }
    \cup { [kind |-> "routes", routesInfos |-> l] : l \in RouteLists }

\* what a swap-building / submission await can do
AwaitOutcomes == {"throw", "ok"}

\* what the await that lands the swap can do: raise, resolve with a response
\* that reports a transaction error (confirmation.value.err, or the error
\* member of the exchange result: the chain paid out nothing), or resolve
\* after the chain paid out some amount (which need not be the quoted one)
LandOutcomes ==
  { [kind |-> "throw", out |-> 0], [kind |-> "txError", out |-> 0] }
    \cup { [kind |-> "ok", out |-> a] : a \in OutAmounts }

Strategies == {"pingpong", "arbitrage"}

\* ------------------------------------------------------------------ state
VARIABLES
  strategyName,   \* config.trading.strategy: which TradingStrategy is loaded
  wallet,         \* PingPongStrategy.wallet: TRUE when a keypair was loaded
  tradingEnabled, \* TRADING_ENABLED of the environment, as cache.tradingEnabled
  simulation,     \* config.trading.simulation: runSimulation instead of runTrading
  direction,      \* PingPongStrategy.direction: "ping" | "pong"
  lastTrade,      \* PingPongStrategy.lastTrade: NoTrade or [inputAmount, outputAmount]
  errorCount,     \* this.errorCount of the strategy
  exited,         \* "no", or the reason process.exit was called
  cycles,         \* the started callbacks / calls: sequence of [pc, route]
  lastResult,     \* the result the most recently finished simulate/execute returned
  consecFails,    \* history: execute calls that raised since the last success
  chainOut,       \* history: what the most recently landed swap really paid out
  cache,          \* the BotCache of the cache-driven strategies
  runs,           \* the started cache-driven cycles: sequence of records
  selRoutes,      \* route selection: routes.routesInfos, as outAmounts
  selAmount,      \* route selection: amountToTrade
  selChosen,      \* route selection: index of mostProfitableRoute, 0 before the loop ran
  selOriginal,    \* history: the candidate list as first given
  maxRetries,     \* sendTransactionWithRetry: the maxRetries argument
  retries,        \* sendTransactionWithRetry: the local `retries`
  retryPc,        \* sendTransactionWithRetry: "idle", "sending", "waiting", "returned", "thrown"
  retryResult,    \* sendTransactionWithRetry: what it returned or raised
  attempts,       \* history: outcome of every sendAndConfirmTransaction call, in order
  waits,          \* history: number of back-off delays that elapsed
  emitterKind,    \* "node": EventBus over the events module; "custom": core/EventEmitter
  busInstance,    \* EventBus.instance: 0 (undefined) or the id of the constructed bus
  constructed,    \* history: number of EventBus objects constructed so far
  refs,           \* the bus each component got from getInstance, 0 before it asked
  listeners,      \* per constructed bus and event: the registered entries, in order
  lastEmit,       \* history: the bus call just made, if an emit: what it invoked, whether it raised
  lastOnBy,       \* history: the component that made the most recent registration
  lastRemoval,    \* history: the off / removeAllListeners call just made, or NoRemoval
  registry,       \* this.plugins of the Application and of the plugin loader, in Map order
  appRunning,     \* Application.isRunning
  raisingOn,      \* the plugin event kinds some listener that raises is registered on
  life,           \* the start / stop call over the plugins in progress or just ended
  lastRegister,   \* history: the registerPlugin / loadPlugin call just made
  corePlugins,    \* BotCore.pluginLoader.plugins, in Map order
  corePc,         \* where BotCore is between construction and process exit
  coreInit,       \* history: the plugins BotCore called initialize / cleanup on, and which raised
  tradeEvents,    \* history: per interval callback, the events it emitted, in order
  quoted,         \* history: per interval callback, the outAmount simulate evaluated, kept
                  \* until execute has requested its own quote (0: none)
  pgPool,         \* DatabaseService.pgPool: "open" or "null"
  redisClient,    \* DatabaseService.redisClient: "open" or "null"
  closePc,        \* DatabaseService: "new", "idle", or where close() is: "endingPool", "quittingRedis", "closed", "rejected"
  saves,          \* the saveTradeEntry calls: sequence of [pc, acquired, released, inserted]
  coreAgain,      \* a shutdown() call that overlaps the first: "none", "shutdown", "closing", "rejected", "exited"
  coreCounts,     \* history: how often shutdown ran cleanupPlugins() and dbService.close()
  appCalls,       \* the start() / stop() calls of the Application: sequence of [op, idx, phase]
  appTally        \* history: start / stop invocations per plugin name and system events
                  \* emitted since the Application last changed isRunning the other way

vars ==
  << strategyName, wallet, tradingEnabled, simulation, direction, lastTrade, errorCount,
     exited, cycles, lastResult, consecFails, chainOut, cache, runs,
     selRoutes, selAmount, selChosen, selOriginal,
     maxRetries, retries, retryPc, retryResult, attempts, waits,
     emitterKind, busInstance, constructed, refs, listeners, lastEmit, lastOnBy,
     lastRemoval,
     registry, appRunning, raisingOn, life, lastRegister,
     corePlugins, corePc, coreInit, tradeEvents, quoted,
     pgPool, redisClient, closePc, saves, appCalls, appTally,
     coreAgain, coreCounts >>

strategyVars == << direction, lastTrade, errorCount >>
envVars == << strategyName, wallet, tradingEnabled, simulation >>
cacheVars == << cache, runs >>
selectVars == << selRoutes, selAmount, selChosen, selOriginal >>
retryVars == << maxRetries, retries, retryPc, retryResult, attempts, waits >>
busVars ==
  << emitterKind, busInstance, constructed, refs, listeners, lastEmit, lastOnBy,
     lastRemoval >>
pluginVars == << registry, appRunning, raisingOn, life, lastRegister >>
coreVars == << corePlugins, corePc, coreInit, coreAgain, coreCounts >>
dbVars == << pgPool, redisClient, closePc, saves >>
appVars == << appCalls, appTally >>
compVars == << busVars, pluginVars, coreVars, dbVars, appVars >>
runnerVars == << tradeEvents, quoted >>
utilVars == << selectVars, retryVars, compVars >>

\* lastTrade = null
NoTrade ==
  [ set |-> FALSE, inputToken |-> "none", outputToken |-> "none",
    inputAmount |-> 0, outputAmount |-> 0 ]
NoResult == [call |-> "none", success |-> FALSE, error |-> "none", outputAmount |-> 0]

\* TradeResult / SimulationResult, reduced to the fields the engine branches
\* on and the output amount a trade reports
Result(call, success, error, outputAmount) ==
  [call |-> call, success |-> success, error |-> error, outputAmount |-> outputAmount]

\* pcs at which a callback is suspended inside strategy.execute
ExecPcs == {"execQuote", "execSwap", "execSend", "execConfirm"}
\* pcs at which a callback is suspended inside strategy.simulate
SimPcs == {"simQuote", "simPong"}

InFlight(c) == cycles[c].pc \in ExecPcs \cup SimPcs

\* no route selection is under way
SelectIdle ==
  /\ selRoutes = << >>
  /\ selAmount = 0
  /\ selChosen = 0
  /\ selOriginal = << >>

NoOutcome == [kind |-> "none", of |-> 0]

\* sendTransactionWithRetry has not been called
RetryIdle ==
  /\ maxRetries = 0
  /\ retries = 0
  /\ retryPc = "idle"
  /\ retryResult = NoOutcome
  /\ attempts = << >>
  /\ waits = 0

\* the components that hold a reference to the event bus
Components == {"app", "loader"}

NoEmit ==
  [ via |-> "none", event |-> "none", payload |-> "none",
    invoked |-> << >>, threw |-> FALSE ]

\* no EventBus has been constructed (the static field is undefined)
NoRemoval == [op |-> "none", event |-> "none", h |-> "none", n |-> 0]
NoLife ==
  [ via |-> "none", op |-> "none", phase |-> "idle", idx |-> 0,
    attempted |-> << >>, failed |-> {}, emitted |-> << >> ]
NoRegister ==
  [ via |-> "none", obj |-> "none", had |-> "none", result |-> "none",
    initialized |-> FALSE, emitted |-> FALSE ]
NoCoreInit == [ initialized |-> {}, initFailed |-> {}, cleaned |-> {}, cleanFailed |-> {} ]
\* a DatabaseService that was constructed and not initialized
DbIdle ==
  /\ pgPool = "null"
  /\ redisClient = "null"
  /\ closePc = "new"
  /\ saves = << >>

NoTally ==
  [ starts |-> [n \in {"A", "B"} |-> 0], stops |-> [n \in {"A", "B"} |-> 0],
    ready |-> 0, shutdown |-> 0 ]

PluginIdle ==
  /\ appCalls = << >>
  /\ appTally = NoTally
  /\ registry = [c \in Components |-> << >>]
  /\ appRunning = FALSE
  /\ raisingOn = {}
  /\ life = NoLife
  /\ lastRegister = NoRegister
  /\ corePlugins = << >>
  /\ corePc = "new"
  /\ coreInit = NoCoreInit
  /\ coreAgain = "none"
  /\ coreCounts = [cleanups |-> 0, closes |-> 0]

BusIdle ==
  /\ emitterKind = "node"
  /\ busInstance = 0
  /\ constructed = 0
  /\ refs = [c \in Components |-> 0]
  /\ listeners = << >>
  /\ lastEmit = NoEmit
  /\ lastOnBy = "none"
  /\ lastRemoval = NoRemoval

\* the initial field values of a strategy object (pingpong.ts 54-63,
\* arbitrage.ts 19) and of the process
InitStrategy ==
  /\ strategyName \in Strategies
  /\ wallet \in (IF strategyName = "pingpong" THEN BOOLEAN ELSE {TRUE})
  /\ direction = "ping"
  /\ lastTrade = NoTrade
  /\ errorCount = 0
  /\ exited = "no"
  /\ cycles = << >>
  /\ tradeEvents = << >>
  /\ quoted = << >>
  /\ lastResult = NoResult
  /\ consecFails = 0
  /\ chainOut = 0
  /\ SelectIdle
  /\ RetryIdle
  /\ BusIdle
  /\ PluginIdle
  /\ DbIdle

\* the cache as BotCore.initializeCache builds it; lastBalance is the base of
\* the profit computation and comes with the context the caller passes
Balance(a, b) == [tokenA |-> a, tokenB |-> b]

InitCache(lb) ==
  /\ cache = [ iteration |-> 0, queue |-> << >>, sideBuy |-> TRUE,
               initialBalance |-> Balance(lb, lb),
               currentBalance |-> Balance(lb, lb),
               lastBalance |-> Balance(lb, lb),
               tradeHistory |-> << >> ]
  /\ runs = << >>

\* ------------------------------------------- TradingStrategy.execute
\* the guard at the head of execute: this.wallet (pingpong.ts), this.jupiter
\* (arbitrage.ts; non-null once initialize has returned)
CanExecute == IF strategyName = "pingpong" THEN wallet ELSE TRUE

SetCycle(c, pc, route) == cycles' = [cycles EXCEPT ![c] = [pc |-> pc, route |-> route]]

Flip(d) == IF d = "ping" THEN "pong" ELSE "ping"

\* variant of ExecuteCatch: the direction is flipped before the error is handled
ExecuteCatchFlipping(c, err) ==
  /\ errorCount' = errorCount + 1
  /\ consecFails' = consecFails + 1
  /\ direction' = Flip(direction)
  /\ UNCHANGED << lastTrade, chainOut >>
  /\ IF errorCount + 1 > ErrorLimit
       THEN /\ exited' = "circuitBreaker"
            /\ UNCHANGED << cycles, lastResult >>
       ELSE /\ exited' = exited
            /\ SetCycle(c, "done", 0)
            /\ lastResult' = Result("execute", FALSE, err, 0)

\* the catch block of execute: count the error, stop the process when the
\* count exceeds the ceiling, otherwise return a failed result
ExecuteCatch(c, err) ==
  /\ errorCount' = errorCount + 1
  /\ consecFails' = consecFails + 1
  /\ UNCHANGED << direction, lastTrade, chainOut >>
  /\ IF errorCount + 1 > ErrorLimit
       THEN /\ exited' = "circuitBreaker"
            /\ UNCHANGED << cycles, lastResult >>
       ELSE /\ exited' = exited
            /\ SetCycle(c, "done", 0)
            /\ lastResult' = Result("execute", FALSE, err, 0)

\* variant of ExecuteNoRoutes: the empty route list is counted as an error
ExecuteNoRoutesCounted(c) ==
  /\ SetCycle(c, "done", 0)
  /\ lastResult' = Result("execute", FALSE, "NoRoutes", 0)
  /\ errorCount' = errorCount + 1
  /\ UNCHANGED << direction, lastTrade, consecFails, exited, chainOut >>

\* the early return for an empty route list
ExecuteNoRoutes(c) ==
  /\ SetCycle(c, "done", 0)
  /\ lastResult' = Result("execute", FALSE, "NoRoutes", 0)
  /\ UNCHANGED << direction, lastTrade, errorCount, consecFails, exited, chainOut >>

\* the tail of the try block, entered when the swap has landed and paid out
\* `landed`: output amount from the quoted route, lastTrade and direction of
\* the ping-pong strategy, the successful result
ExecuteSuccess(c, landed) ==
  LET outputAmount == fromAtomic(cycles[c].route, config.decimals) IN
  /\ IF strategyName = "pingpong"
       THEN /\ lastTrade' = [ set |-> TRUE,
                              inputToken |-> config.inputToken,
                              outputToken |-> config.outputToken,
                              inputAmount |-> config.tradeSize,
                              outputAmount |-> outputAmount ]
            /\ direction' = Flip(direction)
       ELSE UNCHANGED << direction, lastTrade >>
  /\ SetCycle(c, "done", 0)
  /\ lastResult' = Result("execute", TRUE, "none", outputAmount)
  /\ chainOut' = landed
  /\ consecFails' = 0
  /\ UNCHANGED << errorCount, exited >>

\* the quote request of execute resolves or rejects
ExecQuoteReturn(c) ==
  /\ exited = "no"
  /\ c \in DOMAIN cycles
  /\ cycles[c].pc = "execQuote"
  /\ \E o \in QuoteOutcomes :
       IF o.kind = "throw" THEN ExecuteCatch(c, "QuoteError")
       ELSE IF o.kind = "none" THEN ExecuteNoRoutes(c)
       ELSE /\ SetCycle(c, "execSwap", o.out)
            /\ UNCHANGED << strategyVars, chainOut, exited, lastResult, consecFails >>
  /\ UNCHANGED << envVars, utilVars, cacheVars >>

\* POST /swap (pingpong.ts) or jupiter.exchange (arbitrage.ts) resolves or rejects
ExecSwapReturn(c) ==
  /\ exited = "no"
  /\ c \in DOMAIN cycles
  /\ cycles[c].pc = "execSwap"
  /\ \E o \in AwaitOutcomes :
       IF o = "throw" THEN ExecuteCatch(c, "ExecError")
       ELSE /\ SetCycle(c, "execSend", cycles[c].route)
            /\ UNCHANGED << strategyVars, chainOut, exited, lastResult, consecFails >>
  /\ UNCHANGED << envVars, utilVars, cacheVars >>

\* connection.sendTransaction (pingpong.ts) or the exchange's execute()
\* (arbitrage.ts) resolves or rejects
ExecSendReturn(c) ==
  /\ exited = "no"
  /\ c \in DOMAIN cycles
  /\ cycles[c].pc = "execSend"
  /\ IF strategyName = "pingpong"
       THEN \E o \in AwaitOutcomes :
              IF o = "throw" THEN ExecuteCatch(c, "SendError")
              ELSE /\ SetCycle(c, "execConfirm", cycles[c].route)
                   /\ UNCHANGED << strategyVars, chainOut, exited, lastResult, consecFails >>
       ELSE \E o \in LandOutcomes :
              IF o.kind = "throw" THEN ExecuteCatch(c, "SendError")
              ELSE ExecuteSuccess(c, o.out)
  /\ UNCHANGED << envVars, utilVars, cacheVars >>

\* connection.confirmTransaction resolves (whatever it reports) or rejects
ExecConfirmReturn(c) ==
  /\ exited = "no"
  /\ c \in DOMAIN cycles
  /\ cycles[c].pc = "execConfirm"
  /\ \E o \in LandOutcomes :
       IF o.kind = "throw" THEN ExecuteCatch(c, "ExecError")
       ELSE ExecuteSuccess(c, o.out)
  /\ UNCHANGED << envVars, utilVars, cacheVars >>

\* strategy.execute is called: the guard, then the code up to the quote request
CallExecute ==
  /\ exited = "no"
  /\ \A c \in DOMAIN cycles : ~InFlight(c)
  /\ IF CanExecute
       THEN /\ cycles' = << [pc |-> "execQuote", route |-> 0] >>
            /\ UNCHANGED lastResult
       ELSE /\ cycles' = << [pc |-> "done", route |-> 0] >>
            /\ lastResult' = Result("execute", FALSE, "NoWallet", 0)
  /\ UNCHANGED << envVars, utilVars, strategyVars, chainOut, exited, consecFails, cacheVars >>

\* a harness that calls execute again and again, one call at a time
InitExecute ==
  /\ InitStrategy
  /\ tradingEnabled = TRUE
  /\ simulation = FALSE
  /\ InitCache(0)

NextExecute ==
  \/ CallExecute /\ UNCHANGED runnerVars
  \/ \E c \in DOMAIN cycles : ExecQuoteReturn(c) /\ UNCHANGED runnerVars
  \/ \E c \in DOMAIN cycles : ExecSwapReturn(c) /\ UNCHANGED runnerVars
  \/ \E c \in DOMAIN cycles : ExecSendReturn(c) /\ UNCHANGED runnerVars
  \/ \E c \in DOMAIN cycles : ExecConfirmReturn(c) /\ UNCHANGED runnerVars

SpecExecute == InitExecute /\ [][NextExecute]_vars

\* ---------------------------------------- runTrading / runSimulation
\* EventBus.getInstance().emit(type, result) in the callback c
Emit(c, type, success) ==
  tradeEvents' = [tradeEvents EXCEPT ![c] = Append(@, [type |-> type, success |-> success])]

\* variant of AfterSimulate: the simulation flag is not consulted
AfterSimulateTrading(c, success, err, pct) ==
  IF success /\ PctGE(pct, config.minPercProfit)
    THEN IF CanExecute
           THEN /\ SetCycle(c, "execQuote", 0)
                /\ UNCHANGED << lastResult, tradeEvents >>
           ELSE /\ SetCycle(c, "done", 0)
                /\ lastResult' = Result("execute", FALSE, "NoWallet", 0)
                /\ Emit(c, "trade:complete", FALSE)
    ELSE /\ SetCycle(c, "done", 0)
         /\ lastResult' = Result("simulate", success, err, 0)
         /\ UNCHANGED tradeEvents

\* the code of the interval callback that follows `await strategy.simulate`:
\* runSimulation emits the result; runTrading calls execute when the
\* simulation succeeded and its profit percentage reaches the minimum
AfterSimulate(c, success, err, pct) ==
  IF simulation
    THEN /\ SetCycle(c, "done", 0)
         /\ lastResult' = Result("simulate", success, err, 0)
         /\ Emit(c, "simulation:complete", success)
    ELSE IF success /\ PctGE(pct, config.minPercProfit)
      THEN IF CanExecute
             THEN /\ SetCycle(c, "execQuote", 0)
                  /\ UNCHANGED << lastResult, tradeEvents >>
             ELSE /\ SetCycle(c, "done", 0)
                  /\ lastResult' = Result("execute", FALSE, "NoWallet", 0)
                  /\ Emit(c, "trade:complete", FALSE)
      ELSE /\ SetCycle(c, "done", 0)
           /\ lastResult' = Result("simulate", success, err, 0)
           /\ UNCHANGED tradeEvents

\* the callback c remembers the outAmount its simulation was quoted for as
\* long as it is on its way to, or waiting for, the quote of execute
KeepQuote(c, out) ==
  quoted' = [quoted EXCEPT ![c] =
               IF c \in DOMAIN cycles' /\ cycles'[c].pc \in {"simPong", "execQuote"}
                 THEN out ELSE 0]

\* setInterval fires the callback: simulate runs up to its quote request
Tick ==
  /\ exited = "no"
  /\ Len(cycles) < MaxCycles
  /\ cycles' = Append(cycles, [pc |-> "simQuote", route |-> 0])
  /\ tradeEvents' = Append(tradeEvents, << >>)
  /\ quoted' = Append(quoted, 0)
  /\ UNCHANGED << envVars, utilVars, strategyVars, chainOut, exited, lastResult, consecFails, cacheVars >>

\* the first quote request of simulate resolves or rejects
SimQuoteReturn(c) ==
  /\ exited = "no"
  /\ c \in DOMAIN cycles
  /\ cycles[c].pc = "simQuote"
  /\ \E o \in QuoteOutcomes :
     /\ IF o.kind = "throw" THEN AfterSimulate(c, FALSE, "QuoteError", PctZero)
       ELSE IF o.kind = "none" THEN AfterSimulate(c, FALSE, "NoRoutes", PctZero)
       ELSE LET outputAmount == fromAtomic(o.out, config.decimals) IN
         IF strategyName = "arbitrage"
           THEN AfterSimulate(c, TRUE, "none",
                  profitPercentage(outputAmount - config.tradeSize, config.tradeSize))
         ELSE IF direction = "ping"
           THEN /\ SetCycle(c, "simPong", toAtomic(outputAmount, config.decimals))
                /\ UNCHANGED << lastResult, tradeEvents >>
         ELSE IF lastTrade.set
           THEN AfterSimulate(c, TRUE, "none",
                  profitPercentage(outputAmount - lastTrade.inputAmount,
                                   lastTrade.inputAmount))
         ELSE AfterSimulate(c, TRUE, "none", PctZero)
     /\ KeepQuote(c, o.out)
  /\ UNCHANGED << envVars, utilVars, strategyVars, chainOut, exited, consecFails, cacheVars >>

\* the round-trip (pong) quote request of simulate resolves or rejects
SimPongReturn(c) ==
  /\ exited = "no"
  /\ c \in DOMAIN cycles
  /\ cycles[c].pc = "simPong"
  /\ \E o \in QuoteOutcomes :
       IF o.kind = "throw" THEN AfterSimulate(c, FALSE, "QuoteError", PctZero)
       ELSE IF o.kind = "none" THEN AfterSimulate(c, TRUE, "none", PctZero)
       ELSE LET roundTripAmount == fromAtomic(o.out, config.decimals) IN
         AfterSimulate(c, TRUE, "none",
           profitPercentage(roundTripAmount - config.tradeSize, config.tradeSize))
  /\ KeepQuote(c, quoted[c])
  /\ UNCHANGED << envVars, utilVars, strategyVars, chainOut, exited, consecFails, cacheVars >>

\* the SIGINT handler: clearInterval, process.exit(0)
Sigint ==
  /\ exited = "no"
  /\ exited' = "sigint"
  /\ UNCHANGED << envVars, utilVars, strategyVars, chainOut, cycles, lastResult, consecFails, cacheVars, runnerVars >>

\* the code of the runTrading callback that follows `await strategy.execute`:
\* whatever result execute returned is emitted as trade:complete
AfterExecute(c) ==
  /\ IF c \in DOMAIN cycles' /\ cycles[c].pc \in ExecPcs /\ cycles'[c].pc = "done"
       THEN Emit(c, "trade:complete", lastResult'.success)
       ELSE UNCHANGED tradeEvents
  /\ KeepQuote(c, quoted[c])

InitTrading ==
  /\ InitStrategy
  /\ tradingEnabled \in BOOLEAN
  /\ simulation \in BOOLEAN
  /\ InitCache(0)

NextTrading ==
  \/ Tick
  \/ \E c \in DOMAIN cycles : SimQuoteReturn(c)
  \/ \E c \in DOMAIN cycles : SimPongReturn(c)
  \/ \E c \in DOMAIN cycles : ExecQuoteReturn(c) /\ AfterExecute(c)
  \/ \E c \in DOMAIN cycles : ExecSwapReturn(c) /\ AfterExecute(c)
  \/ \E c \in DOMAIN cycles : ExecSendReturn(c) /\ AfterExecute(c)
  \/ \E c \in DOMAIN cycles : ExecConfirmReturn(c) /\ AfterExecute(c)
  \/ Sigint

SpecTrading == InitTrading /\ [][NextTrading]_vars

\* ---------------------------- cache-driven cycles (execute(context))
\* variant of StartIteration: the counter is not advanced
StartIterationNoIncrement(cch) ==
  [cch EXCEPT !.queue = (cch.iteration :> -1) @@ @]

\* cache.iteration++; const i = cache.iteration; cache.queue[i] = -1
StartIteration(cch) ==
  [cch EXCEPT !.iteration = @ + 1,
              !.queue = ((cch.iteration + 1) :> -1) @@ @]

\* amountToTrade of the cycle
AmountToTrade(cch, token) ==
  IF config.tradeSizeStrategy = "cumulative"
    THEN cch.currentBalance[token] ELSE cch.initialBalance[token]

\* variant of ProfitClears: the threshold is not consulted
ProfitClearsAnyProfit(profit) == tradingEnabled

\* the comparison that lets a cycle go on to the trade
ProfitClears(profit) == PctGT(profit, config.minPercProfit) /\ tradingEnabled

\* variant of BestFrom: a later route of equal profit replaces the best
RECURSIVE BestFromLastSeen(_, _, _, _)
BestFromLastSeen(routesInfos, amount, j, best) ==
  IF j > Len(routesInfos) THEN best
  ELSE IF PctGE(calculateProfit(amount, routesInfos[j]),
                calculateProfit(amount, routesInfos[best]))
    THEN BestFromLastSeen(routesInfos, amount, j + 1, j)
    ELSE BestFromLastSeen(routesInfos, amount, j + 1, best)

\* the route the arbitrage cycle selects: index of the first maximum of the
\* profit over the candidates, scanning from the second with a strict >
RECURSIVE BestFrom(_, _, _, _)
BestFrom(routesInfos, amount, j, best) ==
  IF j > Len(routesInfos) THEN best
  ELSE IF PctGT(calculateProfit(amount, routesInfos[j]),
                calculateProfit(amount, routesInfos[best]))
    THEN BestFrom(routesInfos, amount, j + 1, j)
    ELSE BestFrom(routesInfos, amount, j + 1, best)

MostProfitable(routesInfos, amount) == BestFrom(routesInfos, amount, 2, 1)

\* checkRoutesResponse: exits the process unless routesInfos is a non-empty list
RoutesValid(o) == o.kind = "routes" /\ Len(o.routesInfos) > 0

\* the cycle settles; `out` is the outAmount of the route it evaluated
SetRun(r, outcome, profit, out) ==
  runs' = [runs EXCEPT ![r].pc = "settled", ![r].outcome = outcome,
                       ![r].profit = profit, ![r].out = out]

\* execute(context) is called: the code up to `await jupiter.computeRoutes`
CacheStart ==
  /\ exited = "no"
  /\ Len(runs) < MaxIter
  /\ cache' = StartIteration(cache)
  /\ LET token == IF strategyName = "pingpong"
                    THEN (IF cache.sideBuy THEN "tokenA" ELSE "tokenB")
                    ELSE "tokenA"
         other == IF cache.sideBuy THEN "tokenB" ELSE "tokenA"
     IN runs' = Append(runs,
          [ i |-> cache'.iteration, pc |-> "quoting",
            amountToTrade |-> AmountToTrade(cache, token),
            baseAmount |-> IF strategyName = "pingpong"
                             THEN cache.lastBalance[other]
                             ELSE AmountToTrade(cache, token),
            outcome |-> "pending", profit |-> PctZero, out |-> 0 ])
  /\ UNCHANGED << envVars, utilVars, strategyVars, chainOut, exited, cycles, lastResult, consecFails >>

\* computeRoutes resolves or rejects: the rest of the cycle
CacheQuoteReturn(r) ==
  /\ exited = "no"
  /\ r \in DOMAIN runs
  /\ runs[r].pc = "quoting"
  /\ \E o \in RoutesOutcomes :
       IF o.kind = "throw"
         THEN \* catch: console.error only
              /\ SetRun(r, "error", PctZero, 0)
              /\ UNCHANGED << cache, exited >>
       ELSE IF ~RoutesValid(o)
         THEN \* checkRoutesResponse: process.exit(1)
              /\ exited' = "checkRoutes"
              /\ UNCHANGED << cache, runs >>
       ELSE IF strategyName = "pingpong"
         THEN LET simulatedProfit ==
                    calculateProfit(runs[r].baseAmount, o.routesInfos[1])
              IN /\ cache' = [cache EXCEPT
                      !.queue = (runs[r].i :> 0) @@ @,
                      !.sideBuy = IF ProfitClears(simulatedProfit) THEN ~@ ELSE @]
                 /\ SetRun(r, IF ProfitClears(simulatedProfit) THEN "trade" ELSE "noTrade",
                           simulatedProfit, o.routesInfos[1])
                 /\ UNCHANGED exited
         ELSE /\ cache' = [cache EXCEPT !.queue = (runs[r].i :> 0) @@ @]
              /\ UNCHANGED exited
              /\ IF Len(o.routesInfos) < 2
                   THEN SetRun(r, "notEnoughRoutes", PctZero, 0)
                   ELSE LET bestRoute ==
                              o.routesInfos[MostProfitable(o.routesInfos,
                                                           runs[r].amountToTrade)]
                            highestProfit ==
                              calculateProfit(runs[r].amountToTrade, bestRoute)
                        IN SetRun(r, IF ProfitClears(highestProfit)
                                       THEN "trade" ELSE "noTrade",
                                  highestProfit, bestRoute)
  /\ UNCHANGED << envVars, utilVars, strategyVars, chainOut, cycles, lastResult, consecFails >>

InitCycles ==
  /\ InitStrategy
  /\ tradingEnabled \in BOOLEAN
  /\ simulation = FALSE
  /\ \E lb \in {0, config.tradeSize} : InitCache(lb)

NextCache ==
  \/ CacheStart /\ UNCHANGED runnerVars
  \/ \E r \in DOMAIN runs : CacheQuoteReturn(r) /\ UNCHANGED runnerVars

SpecCache == InitCycles /\ [][NextCache]_vars

\* ================================================================ claims

\* ------------------------------------------- the route selection by itself
\* the arbitrage cycle reaches its selection loop with two or more routes
\* and the amountToTrade of the cache (0 as BotCore builds it)
SelectableLists == { l \in RouteLists : Len(l) >= 2 }

\* the candidate list with the routes at i and i + 1 exchanged
SwapAdjacent(l, i) ==
  [ j \in DOMAIN l |-> IF j = i THEN l[i + 1] ELSE IF j = i + 1 THEN l[i] ELSE l[j] ]

\* the selection loop runs over the list as given
Select ==
  /\ selChosen = 0
  /\ selChosen' = MostProfitable(selRoutes, selAmount)
  /\ selOriginal' = selRoutes
  /\ UNCHANGED << selRoutes, selAmount >>
  /\ UNCHANGED << envVars, strategyVars, chainOut, exited, cycles, lastResult,
                  consecFails, cacheVars, retryVars, compVars >>

\* the quote service returns the same candidates in another order and the
\* selection loop runs again
Reorder ==
  /\ selChosen # 0
  /\ \E i \in 1..(Len(selRoutes) - 1) :
       /\ selRoutes' = SwapAdjacent(selRoutes, i)
       /\ selChosen' = MostProfitable(selRoutes', selAmount)
  /\ UNCHANGED << selAmount, selOriginal >>
  /\ UNCHANGED << envVars, strategyVars, chainOut, exited, cycles, lastResult,
                  consecFails, cacheVars, retryVars, compVars >>

InitSelect ==
  /\ strategyName = "arbitrage"
  /\ wallet = TRUE
  /\ tradingEnabled = TRUE
  /\ simulation = FALSE
  /\ direction = "ping"
  /\ lastTrade = NoTrade
  /\ errorCount = 0
  /\ exited = "no"
  /\ cycles = << >>
  /\ tradeEvents = << >>
  /\ quoted = << >>
  /\ lastResult = NoResult
  /\ consecFails = 0
  /\ chainOut = 0
  /\ InitCache(0)
  /\ RetryIdle
  /\ BusIdle
  /\ PluginIdle
  /\ DbIdle
  /\ selRoutes \in SelectableLists
  /\ selAmount \in {0, config.tradeSize}
  /\ selChosen = 0
  /\ selOriginal = << >>

NextSelect ==
  \/ Select /\ UNCHANGED runnerVars
  \/ Reorder /\ UNCHANGED runnerVars

SpecSelect == InitSelect /\ [][NextSelect]_vars


\* --------------------------------- TransactionUtils.sendTransactionWithRetry
\* the errors sendAndConfirmTransaction can raise
SendErrors == {"timeout", "blockhashExpired"}
\* what one sendAndConfirmTransaction call can do: resolve with a signature
\* or raise one of the errors
SendOutcomes == {"ok"} \cup SendErrors

\* variant of BudgetExhausted: one failure too many is tolerated
BudgetExhaustedLate(n, budget) == n > budget

\* if (retries >= maxRetries) throw error
BudgetExhausted(n, budget) == n >= budget

\* the function is called: signature = "", retries = 0, and the first pass
\* through the loop up to `await sendAndConfirmTransaction`; with a budget
\* of 0 the loop is not entered and the empty signature is returned
RetryCall ==
  /\ retryPc = "idle"
  /\ \E budget \in 0..MaxBudget :
       /\ maxRetries' = budget
       /\ IF 0 < budget
            THEN /\ retryPc' = "sending"
                 /\ UNCHANGED retryResult
            ELSE /\ retryPc' = "returned"
                 /\ retryResult' = [kind |-> "signature", of |-> 0]
  /\ retries' = 0
  /\ UNCHANGED << attempts, waits >>
  /\ UNCHANGED << envVars, strategyVars, chainOut, exited, cycles, lastResult,
                  consecFails, cacheVars, selectVars, compVars >>

\* sendAndConfirmTransaction resolves (return signature) or rejects (the
\* catch block: count, rethrow when the budget is used up, else start the delay)
RetrySendReturn ==
  /\ retryPc = "sending"
  /\ \E o \in SendOutcomes :
       /\ attempts' = Append(attempts, o)
       /\ IF o = "ok"
            THEN /\ retryPc' = "returned"
                 /\ retryResult' = [kind |-> "signature", of |-> Len(attempts')]
                 /\ UNCHANGED retries
            ELSE /\ retries' = retries + 1
                 /\ IF BudgetExhausted(retries', maxRetries)
                      THEN /\ retryPc' = "thrown"
                           /\ retryResult' = [kind |-> o, of |-> Len(attempts')]
                      ELSE /\ retryPc' = "waiting"
                           /\ UNCHANGED retryResult
  /\ UNCHANGED << maxRetries, waits >>
  /\ UNCHANGED << envVars, strategyVars, chainOut, exited, cycles, lastResult,
                  consecFails, cacheVars, selectVars, compVars >>

\* the setTimeout of 1000 ms fires: the loop condition is tested again, and
\* the function returns the empty signature when it fails
RetryDelayElapsed ==
  /\ retryPc = "waiting"
  /\ waits' = waits + 1
  /\ IF retries < maxRetries
       THEN /\ retryPc' = "sending"
            /\ UNCHANGED retryResult
       ELSE /\ retryPc' = "returned"
            /\ retryResult' = [kind |-> "signature", of |-> 0]
  /\ UNCHANGED << maxRetries, retries, attempts >>
  /\ UNCHANGED << envVars, strategyVars, chainOut, exited, cycles, lastResult,
                  consecFails, cacheVars, selectVars, compVars >>

InitRetry ==
  /\ strategyName = "pingpong"
  /\ wallet = TRUE
  /\ tradingEnabled = TRUE
  /\ simulation = FALSE
  /\ direction = "ping"
  /\ lastTrade = NoTrade
  /\ errorCount = 0
  /\ exited = "no"
  /\ cycles = << >>
  /\ tradeEvents = << >>
  /\ quoted = << >>
  /\ lastResult = NoResult
  /\ consecFails = 0
  /\ chainOut = 0
  /\ InitCache(0)
  /\ SelectIdle
  /\ RetryIdle
  /\ BusIdle
  /\ PluginIdle
  /\ DbIdle

NextRetry ==
  \/ RetryCall /\ UNCHANGED runnerVars
  \/ RetrySendReturn /\ UNCHANGED runnerVars
  \/ RetryDelayElapsed /\ UNCHANGED runnerVars

SpecRetry == InitRetry /\ [][NextRetry]_vars


\* ------------------------------------------------ EventBus / EventEmitter
\* event kinds, the listener functions some component registers (hx raises
\* whenever it is called, h1 returns), and the payloads of emit
BusEvents == {"system:ready", "trade:complete"}
Handlers == {"h1", "hx"}
Raises(h) == h = "hx"
Payloads == {"p1", "p2"}

\* a registration: the listener function and whether it came in through once
Entry(h, once) == [h |-> h, once |-> once]

\* index of the first entry whose listener raises, 0 if none does
FirstRaise(list) ==
  IF \E i \in DOMAIN list : Raises(list[i].h)
    THEN CHOOSE i \in DOMAIN list :
           Raises(list[i].h) /\ \A j \in 1..(i - 1) : ~Raises(list[j].h)
    ELSE 0

\* how far an emit gets through the copy of the listener array: the events
\* module lets the exception of a listener leave emit, core/EventEmitter
\* wraps every call in try/catch
Reached(kind, list) ==
  IF kind = "node" /\ FirstRaise(list) # 0 THEN FirstRaise(list) ELSE Len(list)

\* whether emit raises to its caller
Threw(kind, list) == kind = "node" /\ FirstRaise(list) # 0

\* the calls an emit makes, in order, each with the payload
Invoked(kind, list, payload) ==
  [ i \in 1..Reached(kind, list) |-> [h |-> list[i].h, arg |-> payload] ]

\* the registrations left after an emit that reached the first n entries:
\* a once entry is removed just before its listener is called
RECURSIVE KeepFrom(_, _, _)
KeepFrom(list, i, n) ==
  IF i > Len(list) THEN << >>
  ELSE (IF list[i].once /\ i <= n THEN << >> ELSE << list[i] >>)
         \o KeepFrom(list, i + 1, n)

AfterEmit(kind, list) == KeepFrom(list, 1, Reached(kind, list))

\* whether off(event, h) recognises an entry: the events module also matches
\* the wrapper of once by its .listener, core/EventEmitter compares the
\* stored callback (the wrapper, for once) with indexOf
Matches(kind, entry, h) == entry.h = h /\ (kind = "node" \/ ~entry.once)

\* variant of OffIndex: the oldest registration of any listener is taken
OffIndexOldest(kind, list, h) == IF list = << >> THEN 0 ELSE 1

\* the entry off(event, h) removes, 0 if none: the events module scans from
\* the end of the array, indexOf from the start
OffIndex(kind, list, h) ==
  LET idx == { i \in DOMAIN list : Matches(kind, list[i], h) } IN
  IF idx = {} THEN 0
  ELSE IF kind = "node"
    THEN CHOOSE i \in idx : \A j \in idx : j <= i
    ELSE CHOOSE i \in idx : \A j \in idx : i <= j

RemoveAt(list, k) ==
  [ i \in 1..(Len(list) - 1) |-> IF i < k THEN list[i] ELSE list[i + 1] ]

NoListeners == [e \in BusEvents |-> << >>]

\* number of registrations a bus holds
RECURSIVE CountIn(_, _)
CountIn(reg, events) ==
  IF events = {} THEN 0
  ELSE LET e == CHOOSE x \in events : TRUE
       IN Len(reg[e]) + CountIn(reg, events \ {e})

Registered(b) == CountIn(listeners[b], BusEvents)

\* variant of NeedsConstruction: the static field is not consulted
NeedsConstructionAlways == TRUE

\* if (!EventBus.instance)
NeedsConstruction == busInstance = 0

\* EventBus.getInstance(), called by component c
GetInstance(c) ==
  /\ emitterKind = "node"
  /\ IF NeedsConstruction
       THEN /\ constructed' = constructed + 1
            /\ busInstance' = constructed'
            /\ listeners' = Append(listeners, NoListeners)
       ELSE UNCHANGED << constructed, busInstance, listeners >>
  /\ refs' = [refs EXCEPT ![c] = busInstance']
  /\ lastEmit' = NoEmit
  /\ lastRemoval' = NoRemoval
  /\ UNCHANGED << emitterKind, lastOnBy >>

\* on(event, listener) through the reference of c
BusOn(c, e, h) ==
  /\ refs[c] # 0
  /\ Registered(refs[c]) < MaxListeners
  /\ listeners' = [listeners EXCEPT ![refs[c]][e] = Append(@, Entry(h, FALSE))]
  /\ lastOnBy' = c
  /\ lastEmit' = NoEmit
  /\ lastRemoval' = NoRemoval
  /\ UNCHANGED << emitterKind, busInstance, constructed, refs >>

\* once(event, listener) through the reference of c
BusOnce(c, e, h) ==
  /\ refs[c] # 0
  /\ Registered(refs[c]) < MaxListeners
  /\ listeners' = [listeners EXCEPT ![refs[c]][e] = Append(@, Entry(h, TRUE))]
  /\ lastOnBy' = c
  /\ lastEmit' = NoEmit
  /\ lastRemoval' = NoRemoval
  /\ UNCHANGED << emitterKind, busInstance, constructed, refs >>

\* off(event, listener) through the reference of c
BusOff(c, e, h) ==
  /\ refs[c] # 0
  /\ LET list == listeners[refs[c]][e]
         k == OffIndex(emitterKind, list, h)
     IN /\ listeners' = [listeners EXCEPT ![refs[c]][e] =
                           IF k = 0 THEN list ELSE RemoveAt(list, k)]
        /\ lastRemoval' = [op |-> "off", event |-> e, h |-> h, n |-> k]
  /\ lastEmit' = NoEmit
  /\ UNCHANGED << emitterKind, busInstance, constructed, refs, lastOnBy >>

\* emit(event, data) through the reference of c, up to its return or raise
BusEmit(c, e, p) ==
  /\ refs[c] # 0
  /\ LET list == listeners[refs[c]][e] IN
       /\ lastEmit' = [ via |-> c, event |-> e, payload |-> p,
                        invoked |-> Invoked(emitterKind, list, p),
                        threw |-> Threw(emitterKind, list) ]
       /\ listeners' = [listeners EXCEPT ![refs[c]][e] = AfterEmit(emitterKind, list)]
  /\ lastRemoval' = NoRemoval
  /\ UNCHANGED << emitterKind, busInstance, constructed, refs, lastOnBy >>

\* variant of ClearEvent: the event argument is ignored
ClearEventAll(reg, e) == NoListeners

\* removeAllListeners(event): the listener array of that event is dropped
ClearEvent(reg, e) == [reg EXCEPT ![e] = << >>]

\* removeAllListeners(event) through the reference of c
BusRemoveAllListeners(c, e) ==
  /\ refs[c] # 0
  /\ listeners' = [listeners EXCEPT ![refs[c]] = ClearEvent(@, e)]
  /\ lastRemoval' = [op |-> "removeAllListeners", event |-> e, h |-> "none",
                      n |-> Len(listeners[refs[c]][e])]
  /\ lastEmit' = NoEmit
  /\ UNCHANGED << emitterKind, busInstance, constructed, refs, lastOnBy >>

\* removeAllListeners() through the reference of c
BusRemoveAll(c) ==
  /\ refs[c] # 0
  /\ listeners' = [listeners EXCEPT ![refs[c]] = NoListeners]
  /\ lastRemoval' = [op |-> "removeAllListeners", event |-> "none", h |-> "none",
                      n |-> Registered(refs[c])]
  /\ lastEmit' = NoEmit
  /\ UNCHANGED << emitterKind, busInstance, constructed, refs, lastOnBy >>

\* the engine variables while only the event bus is exercised
EngineIdle ==
  /\ strategyName = "pingpong"
  /\ wallet = TRUE
  /\ tradingEnabled = TRUE
  /\ simulation = FALSE
  /\ direction = "ping"
  /\ lastTrade = NoTrade
  /\ errorCount = 0
  /\ exited = "no"
  /\ cycles = << >>
  /\ tradeEvents = << >>
  /\ quoted = << >>
  /\ lastResult = NoResult
  /\ consecFails = 0
  /\ chainOut = 0
  /\ InitCache(0)
  /\ SelectIdle
  /\ RetryIdle

engineVars ==
  << envVars, strategyVars, chainOut, exited, cycles, lastResult, consecFails,
     cacheVars, selectVars, retryVars, runnerVars, dbVars, appVars >>

\* either no EventBus exists yet (the static field is undefined), or the
\* components share one core/EventEmitter object made with `new`
InitBus ==
  /\ EngineIdle
  /\ emitterKind \in {"node", "custom"}
  /\ IF emitterKind = "node"
       THEN /\ busInstance = 0
            /\ constructed = 0
            /\ refs = [c \in Components |-> 0]
            /\ listeners = << >>
       ELSE /\ busInstance = 1
            /\ constructed = 1
            /\ refs = [c \in Components |-> 1]
            /\ listeners = << NoListeners >>
  /\ lastEmit = NoEmit
  /\ lastOnBy = "none"
  /\ lastRemoval = NoRemoval
  /\ PluginIdle
  /\ DbIdle

NextBus ==
  \/ \E c \in Components : GetInstance(c) /\ UNCHANGED << engineVars, pluginVars, coreVars >>
  \/ \E c \in Components, e \in BusEvents, h \in Handlers :
       BusOn(c, e, h) /\ UNCHANGED << engineVars, pluginVars, coreVars >>
  \/ \E c \in Components, e \in BusEvents, h \in Handlers :
       BusOnce(c, e, h) /\ UNCHANGED << engineVars, pluginVars, coreVars >>
  \/ \E c \in Components, e \in BusEvents, h \in Handlers :
       BusOff(c, e, h) /\ UNCHANGED << engineVars, pluginVars, coreVars >>
  \/ \E c \in Components, e \in BusEvents, p \in Payloads :
       BusEmit(c, e, p) /\ UNCHANGED << engineVars, pluginVars, coreVars >>
  \/ \E c \in Components, e \in BusEvents :
       BusRemoveAllListeners(c, e) /\ UNCHANGED << engineVars, pluginVars, coreVars >>
  \/ \E c \in Components : BusRemoveAll(c) /\ UNCHANGED << engineVars, pluginVars, coreVars >>

SpecBus == InitBus /\ [][NextBus]_vars

\* ------------------------------------------- Application / plugins/loader
\* plugin objects: a1 and a2 carry the same name, b1 another one
PluginObjs == {"a1", "a2", "b1"}
PluginName(o) == IF o = "b1" THEN "B" ELSE "A"

\* the lifecycle events of EventType
PluginEvents == {"plugin:loaded", "plugin:started", "plugin:stopped", "plugin:error"}

\* Map<string, Plugin> as the sequence of its values in insertion order
NamesIn(reg) == { PluginName(reg[i]) : i \in DOMAIN reg }
MapHas(reg, name) == name \in NamesIn(reg)
MapGet(reg, name) ==
  IF MapHas(reg, name)
    THEN reg[CHOOSE i \in DOMAIN reg : PluginName(reg[i]) = name]
    ELSE "none"

\* plugins.set(plugin.name, plugin): a new key goes to the end, an existing
\* key keeps its place and gets the new value
MapSet(reg, o) ==
  IF MapHas(reg, PluginName(o))
    THEN [ i \in DOMAIN reg |->
             IF PluginName(reg[i]) = PluginName(o) THEN o ELSE reg[i] ]
    ELSE Append(reg, o)

\* eventBus.emit(type, ...) raises to its caller when a listener of that
\* event raises (EventBus.emit has no try/catch)
EmitRaises(type) == type \in raisingOn

\* the lifecycle events a plugin puts a raising listener on
ListenedEvents == {"plugin:loaded", "plugin:started", "plugin:error"}

\* a plugin, handed the emitter by initialize, registers a listener that
\* raises on a lifecycle event
PluginListens(type) ==
  /\ type \notin raisingOn
  /\ raisingOn' = raisingOn \cup {type}
  /\ UNCHANGED << registry, appRunning, life, lastRegister >>

\* Application.registerPlugin(plugin)
RegisterPlugin(o) ==
  LET reg == registry["app"]
      had == MapGet(reg, PluginName(o))
      call == [ via |-> "app", obj |-> o, had |-> had, result |-> "none",
                initialized |-> FALSE, emitted |-> FALSE ]
  IN
  /\ IF had # "none"
       THEN /\ lastRegister' = [call EXCEPT !.result = "collision"]
            /\ UNCHANGED registry
       ELSE \E initOk \in BOOLEAN :
              IF initOk
                THEN /\ registry' = [registry EXCEPT !["app"] = MapSet(reg, o)]
                     /\ lastRegister' =
                          [call EXCEPT !.initialized = TRUE, !.emitted = TRUE,
                             !.result = IF EmitRaises("plugin:loaded")
                                          THEN "emitRaised" ELSE "registered"]
                ELSE /\ lastRegister' =
                          [call EXCEPT !.initialized = TRUE,
                                       !.result = "initializeRaised"]
                     /\ UNCHANGED registry
  /\ UNCHANGED << appRunning, raisingOn, life >>

\* PluginLoader.loadPlugin(name), and one directory of loadPlugins: the
\* plugin is initialized and stored under its name, any exception is logged
LoadPlugin(o) ==
  LET reg == registry["loader"]
      had == MapGet(reg, PluginName(o))
      call == [ via |-> "loader", obj |-> o, had |-> had, result |-> "none",
                initialized |-> TRUE, emitted |-> FALSE ]
  IN
  /\ \E initOk \in BOOLEAN :
       IF initOk
         THEN /\ registry' = [registry EXCEPT !["loader"] = MapSet(reg, o)]
              /\ lastRegister' =
                   [call EXCEPT !.emitted = TRUE,
                                !.result = IF EmitRaises("plugin:loaded")
                                             THEN "caught" ELSE "loaded"]
         ELSE /\ lastRegister' = [call EXCEPT !.result = "caught"]
              /\ UNCHANGED registry
  /\ UNCHANGED << appRunning, raisingOn, life >>

\* the isRunning guard of Application.start / stop; the loader has none
Skips(c, op) ==
  c = "app" /\ (IF op = "start" THEN appRunning ELSE ~appRunning)

\* start() / stop() of the Application, startAllPlugins() / stopAllPlugins()
\* of the loader: up to the first await of the loop
LifeBegin(c, op) ==
  /\ life.phase # "running"
  /\ life' = [ NoLife EXCEPT !.via = c, !.op = op, !.idx = 1,
                 !.phase = IF Skips(c, op) THEN "skipped" ELSE "running" ]
  /\ UNCHANGED << registry, appRunning, raisingOn, lastRegister >>

\* the event a plugin that started (stopped) is reported with
DoneEvent(op) == IF op = "start" THEN "plugin:started" ELSE "plugin:stopped"

\* one round of the loop: await plugin.start() (stop()), the event on
\* success, the catch block with plugin:error otherwise; an exception out of
\* the catch block ends the whole call
LifeStep(c) ==
  /\ life.via = c
  /\ life.phase = "running"
  /\ life.idx <= Len(registry[c])
  /\ \E ok \in BOOLEAN :
       LET name == PluginName(registry[c][life.idx])
           done == [type |-> DoneEvent(life.op), name |-> name]
           err == [type |-> "plugin:error", name |-> name]
           caught == ~ok \/ EmitRaises(done.type)
           out == (IF ok THEN << done >> ELSE << >>)
                    \o (IF caught THEN << err >> ELSE << >>)
       IN life' = [ life EXCEPT
                      !.idx = @ + 1,
                      !.attempted = Append(@, name),
                      !.failed = IF ok THEN @ ELSE @ \cup {name},
                      !.emitted = @ \o out,
                      !.phase = IF caught /\ EmitRaises("plugin:error")
                                  THEN "rejected" ELSE "running" ]
  /\ UNCHANGED << registry, appRunning, raisingOn, lastRegister >>

\* the system event at the end of Application.start / stop
SystemEvent(op) == IF op = "start" THEN "system:ready" ELSE "system:shutdown"

\* after the loop: isRunning is set and the system event goes out
LifeEnd(c) ==
  /\ life.via = c
  /\ life.phase = "running"
  /\ life.idx > Len(registry[c])
  /\ life' = [ life EXCEPT
                 !.phase = "returned",
                 !.emitted = IF c = "app"
                               THEN Append(@, [type |-> SystemEvent(life.op),
                                               name |-> "none"])
                               ELSE @ ]
  /\ appRunning' = IF c = "app" THEN life.op = "start" ELSE appRunning
  /\ UNCHANGED << registry, raisingOn, lastRegister >>

\* the Application and the loader right after construction: both hold the
\* bus, no plugin is registered
InitPlugins ==
  /\ EngineIdle
  /\ emitterKind = "node"
  /\ busInstance = 1
  /\ constructed = 1
  /\ refs = [c \in Components |-> 1]
  /\ listeners = << NoListeners >>
  /\ lastEmit = NoEmit
  /\ lastOnBy = "none"
  /\ lastRemoval = NoRemoval
  /\ PluginIdle
  /\ DbIdle

NextPlugins ==
  \/ \E type \in ListenedEvents :
       PluginListens(type) /\ UNCHANGED << engineVars, busVars, coreVars >>
  \/ \E o \in PluginObjs :
       RegisterPlugin(o) /\ UNCHANGED << engineVars, busVars, coreVars >>
  \/ \E o \in PluginObjs :
       LoadPlugin(o) /\ UNCHANGED << engineVars, busVars, coreVars >>
  \/ \E c \in Components, op \in {"start", "stop"} :
       LifeBegin(c, op) /\ UNCHANGED << engineVars, busVars, coreVars >>
  \/ \E c \in Components :
       LifeStep(c) /\ UNCHANGED << engineVars, busVars, coreVars >>
  \/ \E c \in Components :
       LifeEnd(c) /\ UNCHANGED << engineVars, busVars, coreVars >>

SpecPlugins == InitPlugins /\ [][NextPlugins]_vars

\* --------------------------- Application.start / stop, calls that overlap
\* the number of start() / stop() calls followed
MaxCalls == 3

appRest ==
  << envVars, strategyVars, chainOut, exited, cycles, lastResult, consecFails,
     cacheVars, selectVars, retryVars, runnerVars, dbVars, busVars, coreVars, life >>

\* plugin.start() / plugin.stop() is invoked on the plugin stored under name
Invoke(tally, op, name) ==
  IF op = "start" THEN [tally EXCEPT !.starts[name] = @ + 1]
                  ELSE [tally EXCEPT !.stops[name] = @ + 1]

\* the end of start() / stop(): isRunning is assigned and the system event
\* is emitted; the counts of the opposite operation start afresh
Finish(tally, op) ==
  IF op = "start"
    THEN [tally EXCEPT !.ready = @ + 1, !.stops = NoTally.stops, !.shutdown = 0]
    ELSE [tally EXCEPT !.shutdown = @ + 1, !.starts = NoTally.starts, !.ready = 0]

\* the guard at the top of start() / stop(): `if (this.isRunning) return`,
\* `if (!this.isRunning) return`
Passes(op) ==
  IF op = "start" THEN ~appRunning ELSE appRunning

\* start() / stop() is called: the guard, then the code up to the first
\* await of the loop; over an empty map the call runs to its end
AppCall(op) ==
  /\ Len(appCalls) < MaxCalls
  /\ LET reg == registry["app"] IN
     IF ~Passes(op)
       THEN /\ appCalls' = Append(appCalls, [op |-> op, idx |-> 0, phase |-> "skipped"])
            /\ UNCHANGED << appTally, appRunning >>
     ELSE IF Len(reg) = 0
       THEN /\ appCalls' = Append(appCalls, [op |-> op, idx |-> 0, phase |-> "returned"])
            /\ appTally' = Finish(appTally, op)
            /\ appRunning' = (op = "start")
       ELSE /\ appCalls' = Append(appCalls, [op |-> op, idx |-> 1, phase |-> "running"])
            /\ appTally' = Invoke(appTally, op, PluginName(reg[1]))
            /\ UNCHANGED appRunning
  /\ UNCHANGED << registry, raisingOn, lastRegister >>

\* the plugin a call awaits settles: plugin:started / plugin:stopped, or the
\* catch block with plugin:error (an exception out of the catch block ends
\* the call), then the next plugin is invoked, or the call ends
AppStep(k) ==
  /\ k \in DOMAIN appCalls
  /\ appCalls[k].phase = "running"
  /\ \E ok \in BOOLEAN :
       LET call == appCalls[k]
           reg == registry["app"]
           caught == ~ok \/ EmitRaises(DoneEvent(call.op))
       IN IF caught /\ EmitRaises("plugin:error")
            THEN /\ appCalls' = [appCalls EXCEPT ![k].phase = "rejected"]
                 /\ UNCHANGED << appTally, appRunning >>
          ELSE IF call.idx < Len(reg)
            THEN /\ appCalls' = [appCalls EXCEPT ![k].idx = @ + 1]
                 /\ appTally' = Invoke(appTally, call.op, PluginName(reg[call.idx + 1]))
                 /\ UNCHANGED appRunning
          ELSE IF EmitRaises(SystemEvent(call.op))
            THEN /\ appCalls' = [appCalls EXCEPT ![k].phase = "rejected"]
                 /\ appRunning' = (call.op = "start")
                 /\ appTally' = Finish(appTally, call.op)
          ELSE /\ appCalls' = [appCalls EXCEPT ![k].phase = "returned"]
               /\ appRunning' = (call.op = "start")
               /\ appTally' = Finish(appTally, call.op)
  /\ UNCHANGED << registry, raisingOn, lastRegister >>

NextApp ==
  \/ \E type \in ListenedEvents : PluginListens(type) /\ UNCHANGED << appRest, appVars >>
  \/ \E o \in PluginObjs : RegisterPlugin(o) /\ UNCHANGED << appRest, appVars >>
  \/ \E op \in {"start", "stop"} : AppCall(op) /\ UNCHANGED appRest
  \/ \E k \in 1..MaxCalls : AppStep(k) /\ UNCHANGED appRest

SpecApp == InitPlugins /\ [][NextApp]_vars

\* ------------------------------------------- BotCore and its PluginLoader
\* plugin.enabled: a2 is the disabled one
Enabled(o) == o # "a2"

\* the plugin files of the plugins directory, in readdir order
PluginFiles ==
  { files \in UNION { [1..n -> PluginObjs] : n \in 0..Cardinality(PluginObjs) } :
      \A i, j \in DOMAIN files : i # j => files[i] # files[j] }

\* the loop of loadPlugins: this.plugins.set(plugin.id, plugin) per file
RECURSIVE LoadAll(_, _)
LoadAll(reg, files) ==
  IF files = << >> THEN reg
  ELSE LoadAll(MapSet(reg, Head(files)), Tail(files))

EnabledIn(reg) == { reg[i] : i \in { j \in DOMAIN reg : Enabled(reg[j]) } }

\* everything but the exit state that BotCore leaves alone
coreRest ==
  << envVars, strategyVars, chainOut, cycles, lastResult, consecFails,
     cacheVars, selectVars, retryVars, busVars, pluginVars, runnerVars, dbVars, appVars >>

\* shutdown() is entered: nothing guards it, and with the bot not running it
\* goes straight to cleanupPlugins(), which calls cleanup() on every enabled
\* plugin before its await
EnterShutdown(counts) == [counts EXCEPT !.cleanups = @ + 1]

\* shutdown() goes on to `await this.dbService.close()`
EnterClose(counts) == [counts EXCEPT !.closes = @ + 1]

\* BotCore.initialize up to `await this.pluginLoader.loadPlugins()`
CoreLoadPlugins(files) ==
  /\ corePc = "new"
  /\ corePlugins' = LoadAll(corePlugins, files)
  /\ corePc' = "loaded"
  /\ UNCHANGED << coreInit, exited, coreAgain, coreCounts >>

\* `await this.pluginLoader.initializePlugins()`: initialize() is called on
\* every enabled plugin and the results are joined with Promise.all; a
\* rejection lands in the catch block of BotCore.initialize, which calls
\* this.shutdown()
CoreInitializePlugins(bad) ==
  /\ corePc = "loaded"
  /\ bad \subseteq EnabledIn(corePlugins)
  /\ coreInit' = [coreInit EXCEPT !.initialized = EnabledIn(corePlugins),
                                  !.initFailed = bad]
  /\ corePc' = IF bad = {} THEN "initialized" ELSE "shutdown"
  /\ coreCounts' = IF bad = {} THEN coreCounts ELSE EnterShutdown(coreCounts)
  /\ UNCHANGED << corePlugins, exited, coreAgain >>

\* `await this.setupJupiter()`, the last step of initialize
CoreSetupJupiter(ok) ==
  /\ corePc = "initialized"
  /\ corePc' = IF ok THEN "ready" ELSE "shutdown"
  /\ coreCounts' = IF ok THEN coreCounts ELSE EnterShutdown(coreCounts)
  /\ UNCHANGED << corePlugins, coreInit, exited, coreAgain >>

\* SIGINT / SIGTERM while the bot is up: shutdown()
CoreSignal ==
  /\ corePc = "ready"
  /\ corePc' = "shutdown"
  /\ coreCounts' = EnterShutdown(coreCounts)
  /\ UNCHANGED << corePlugins, coreInit, exited, coreAgain >>

\* a second SIGINT / SIGTERM while shutdown() is awaiting cleanupPlugins()
\* or dbService.close(): both signals are bound to shutdown, which runs again
CoreSignalAgain ==
  /\ corePc \in {"shutdown", "closing"}
  /\ coreAgain = "none"
  /\ coreAgain' = "shutdown"
  /\ coreCounts' = EnterShutdown(coreCounts)
  /\ UNCHANGED << corePlugins, corePc, coreInit, exited >>

\* the cleanupPlugins() of the overlapping call settles
CoreAgainCleanup(bad) ==
  /\ corePc \in {"shutdown", "closing", "shutdownRejected"}
  /\ coreAgain = "shutdown"
  /\ bad \subseteq EnabledIn(corePlugins)
  /\ coreAgain' = IF bad = {} THEN "closing" ELSE "rejected"
  /\ coreCounts' = IF bad = {} THEN EnterClose(coreCounts) ELSE coreCounts
  /\ UNCHANGED << corePlugins, corePc, coreInit, exited >>

\* the overlapping call gets to process.exit(0)
CoreAgainCloseAndExit ==
  /\ corePc \in {"shutdown", "closing", "shutdownRejected"}
  /\ coreAgain = "closing"
  /\ coreAgain' = "exited"
  /\ corePc' = "exited"
  /\ exited' = "shutdown"
  /\ UNCHANGED << corePlugins, coreInit, coreCounts >>

\* shutdown up to `await this.pluginLoader.cleanupPlugins()`: cleanup() of
\* every enabled plugin joined with Promise.all; a rejection makes shutdown
\* itself reject before the database is closed and the process exited
CoreCleanupPlugins(bad) ==
  /\ corePc = "shutdown"
  /\ bad \subseteq EnabledIn(corePlugins)
  /\ coreInit' = [coreInit EXCEPT !.cleaned = EnabledIn(corePlugins),
                                  !.cleanFailed = bad]
  /\ corePc' = IF bad = {} THEN "closing" ELSE "shutdownRejected"
  /\ coreCounts' = IF bad = {} THEN EnterClose(coreCounts) ELSE coreCounts
  /\ UNCHANGED << corePlugins, exited, coreAgain >>

\* `await this.dbService.close(); process.exit(0)`
CoreCloseAndExit ==
  /\ corePc = "closing"
  /\ corePc' = "exited"
  /\ exited' = "shutdown"
  /\ UNCHANGED << corePlugins, coreInit, coreAgain, coreCounts >>

\* a BotCore right after `new BotCore()`
InitCore ==
  /\ EngineIdle
  /\ BusIdle
  /\ PluginIdle
  /\ DbIdle

NextCore ==
  \/ \E files \in PluginFiles : CoreLoadPlugins(files) /\ UNCHANGED coreRest
  \/ \E bad \in SUBSET PluginObjs : CoreInitializePlugins(bad) /\ UNCHANGED coreRest
  \/ \E ok \in BOOLEAN : CoreSetupJupiter(ok) /\ UNCHANGED coreRest
  \/ CoreSignal /\ UNCHANGED coreRest
  \/ \E bad \in SUBSET PluginObjs : CoreCleanupPlugins(bad) /\ UNCHANGED coreRest
  \/ CoreCloseAndExit /\ UNCHANGED coreRest
  \/ CoreSignalAgain /\ UNCHANGED coreRest
  \/ \E bad \in SUBSET PluginObjs : CoreAgainCleanup(bad) /\ UNCHANGED coreRest
  \/ CoreAgainCloseAndExit /\ UNCHANGED coreRest

SpecCore == InitCore /\ [][NextCore]_vars

\* ---------------------------------------------------------------------------
\* DatabaseService: initialize, close, getPgClient and saveTradeEntry.
\* ---------------------------------------------------------------------------

\* the number of saveTradeEntry calls followed
MaxSaves == 2

dbRest ==
  << envVars, strategyVars, chainOut, exited, cycles, lastResult, consecFails,
     cacheVars, selectVars, retryVars, runnerVars, busVars, pluginVars, coreVars,
     appVars >>

\* a saveTradeEntry call that has just been entered
NewSave(pc) == [pc |-> pc, acquired |-> FALSE, released |-> FALSE, inserted |-> FALSE]

\* initialize(pgConfig, redisConfig): a store whose config is absent or whose
\* connection test fails is left null
DbInitialize(pgOk, redisOk) ==
  /\ closePc = "new"
  /\ pgPool' = IF pgOk THEN "open" ELSE "null"
  /\ redisClient' = IF redisOk THEN "open" ELSE "null"
  /\ closePc' = "idle"
  /\ UNCHANGED << saves, dbRest >>

\* where close() goes once the pool part is over
AfterPool == IF redisClient = "open" THEN "quittingRedis" ELSE "closed"

\* close() is called: up to its first await
DbClose ==
  /\ closePc = "idle"
  /\ closePc' = IF pgPool = "open" THEN "endingPool" ELSE AfterPool
  /\ UNCHANGED << pgPool, redisClient, saves, dbRest >>

\* await this.pgPool.end() settles
DbPoolEnded(ok) ==
  /\ closePc = "endingPool"
  /\ IF ok
       THEN /\ pgPool' = "null"
            /\ closePc' = AfterPool
       ELSE /\ closePc' = "rejected"
            /\ UNCHANGED pgPool
  /\ UNCHANGED << redisClient, saves, dbRest >>

\* await this.redisClient.quit() settles
DbRedisQuit(ok) ==
  /\ closePc = "quittingRedis"
  /\ IF ok
       THEN /\ redisClient' = "null"
            /\ closePc' = "closed"
       ELSE /\ closePc' = "rejected"
            /\ UNCHANGED redisClient
  /\ UNCHANGED << pgPool, saves, dbRest >>

\* saveTradeEntry(trade) is called: without a pool it returns at once,
\* otherwise getPgClient awaits this.pgPool.connect()
DbSave ==
  /\ Len(saves) < MaxSaves
  /\ saves' = Append(saves, NewSave(IF pgPool = "null" THEN "returned" ELSE "connecting"))
  /\ UNCHANGED << pgPool, redisClient, closePc, dbRest >>

\* getPgClient: connect() resolved with a client, or rejected and null was
\* returned, on which saveTradeEntry returns
DbConnectReturn(s, ok) ==
  /\ s \in DOMAIN saves
  /\ saves[s].pc = "connecting"
  /\ saves' = [saves EXCEPT ![s] =
       IF ok THEN [@ EXCEPT !.pc = "querying", !.acquired = TRUE]
             ELSE [@ EXCEPT !.pc = "returned"]]
  /\ UNCHANGED << pgPool, redisClient, closePc, dbRest >>

\* variant of AfterQuery: no finally clause, a rejected insert leaves the call
AfterQueryNoFinally(call, ok) ==
  IF ok
    THEN [call EXCEPT !.pc = "returned", !.inserted = TRUE, !.released = TRUE]
    ELSE [call EXCEPT !.pc = "raised"]

\* try { await client.query(INSERT) } catch { log } finally { client.release() }
AfterQuery(call, ok) ==
  [call EXCEPT !.pc = "returned", !.inserted = ok, !.released = TRUE]

\* client.query settles
DbQueryReturn(s, ok) ==
  /\ s \in DOMAIN saves
  /\ saves[s].pc = "querying"
  /\ saves' = [saves EXCEPT ![s] = AfterQuery(@, ok)]
  /\ UNCHANGED << pgPool, redisClient, closePc, dbRest >>

InitDb ==
  /\ EngineIdle
  /\ BusIdle
  /\ PluginIdle
  /\ DbIdle

NextDb ==
  \/ \E pgOk \in BOOLEAN, redisOk \in BOOLEAN : DbInitialize(pgOk, redisOk)
  \/ DbClose
  \/ \E ok \in BOOLEAN : DbPoolEnded(ok)
  \/ \E ok \in BOOLEAN : DbRedisQuit(ok)
  \/ DbSave
  \/ \E s \in 1..MaxSaves, ok \in BOOLEAN : DbConnectReturn(s, ok)
  \/ \E s \in 1..MaxSaves, ok \in BOOLEAN : DbQueryReturn(s, ok)

SpecDb == InitDb /\ [][NextDb]_vars




\* the callbacks of the interval scheduler that are suspended in an await
CyclesInFlight == { c \in DOMAIN cycles : InFlight(c) }

\* C1: at most one trading cycle is in flight at any time under the interval
\* scheduler of runTrading / runSimulation.
C1_AtMostOneCycleInFlight == Cardinality(CyclesInFlight) <= 1

\* C2: the process is stopped by the error ceiling only after 101 consecutive
\* failed executions with no success in between, never after fewer.
C2_ExitOnlyAfter101Consecutive ==
  exited = "circuitBreaker" => consecFails >= ErrorLimit + 1

\* C3: right after an execute call that returned success=true (and before
\* the next call) the error count is 0.
C3_SuccessResetsErrorCount ==
  ( /\ lastResult.call = "execute"
    /\ lastResult.success
    /\ \A c \in DOMAIN cycles : ~InFlight(c) ) => errorCount = 0

\* C4: no callback is ever inside strategy.execute while tradingEnabled is
\* false.
C4_NoExecutionWhenDisabled ==
  \A c \in DOMAIN cycles : cycles[c].pc \in ExecPcs => tradingEnabled

\* C5: an evaluated cycle goes on to the trade exactly when its profit
\* percentage is not below the minimum and trading is enabled (a profit equal
\* to the minimum trades).
C5_TradeIffProfitNotBelowMinimum ==
  \A r \in DOMAIN runs :
    runs[r].outcome \in {"trade", "noTrade"} =>
      ( runs[r].outcome = "trade"
          <=> (PctGE(runs[r].profit, config.minPercProfit) /\ tradingEnabled) )

\* a step in which the quote request of callback c came back with zero routes
ZeroRoutesStep(c) ==
  /\ c \in DOMAIN cycles'
  /\ cycles[c].pc \in {"simQuote", "execQuote"}
  /\ cycles'[c].pc = "done"
  /\ lastResult'.error = "NoRoutes"

\* C6: a cycle whose quote returns zero routes ends with no trade-history
\* entry, no balance change, no direction flip, lastTrade and the error count
\* unchanged, and the process still running.
C6_ZeroRoutesChangesNothing ==
  [][ \A c \in DOMAIN cycles :
        ZeroRoutesStep(c) =>
          /\ direction' = direction
          /\ lastTrade' = lastTrade
          /\ errorCount' = errorCount
          /\ cache' = cache
          /\ exited' = "no" ]_vars

\* C6 witness: an execute call returned "No routes found" on a strategy that
\* had already traded, so there is a flipped direction and a lastTrade to keep
C6_Witness ==
  /\ lastResult = Result("execute", FALSE, "NoRoutes", 0)
  /\ lastTrade.set
  /\ direction = "pong"
  /\ errorCount = 0

\* C7: a quote that returns zero routes (or a malformed response) never ends
\* the process.
C7_ZeroRoutesNeverEndsProcess == exited # "checkRoutes"

\* C8: a transport error raised by the quote request of execute leaves the
\* error count unchanged.
C8_QuoteErrorNotCounted ==
  [][ \A c \in DOMAIN cycles :
        ( /\ c \in DOMAIN cycles'
          /\ cycles[c].pc = "execQuote"
          /\ cycles'[c].pc = "done"
          /\ lastResult'.error = "QuoteError" ) => errorCount' = errorCount ]_vars

\* C9: after n cycle starts iteration = n, the k-th started cycle holds the
\* number k, and no two cycles hold the same number.
C9_IterationCountsCycleStarts ==
  /\ cache.iteration = Len(runs)
  /\ \A r \in DOMAIN runs : runs[r].i = r
  /\ \A r1, r2 \in DOMAIN runs : r1 # r2 => runs[r1].i # runs[r2].i

\* C9 witness: three cycles started, the first still awaiting its quote while
\* the second has already failed
C9_Witness ==
  /\ Len(runs) >= 3
  /\ runs[1].pc = "quoting"
  /\ runs[2].outcome = "error"
  /\ cache.iteration = 3

\* C10: once a cycle has settled its key in cache.queue is no longer -1.
C10_SettledCycleNotPending ==
  \A r \in DOMAIN runs :
    runs[r].pc = "settled" => cache.queue[runs[r].i] # -1

\* a step in which cache-driven cycle r settles with an evaluated profit
\* below the configured minimum
NoTradeStep(r) ==
  /\ runs[r].pc = "quoting"
  /\ runs'[r].pc = "settled"
  /\ runs'[r].outcome \in {"trade", "noTrade"}
  /\ ~PctGE(runs'[r].profit, config.minPercProfit)

\* C11: a cycle whose profit is below the threshold leaves the length of
\* tradeHistory and the side flag unchanged.
C11_NoTradeKeepsHistoryAndSide ==
  [][ \A r \in DOMAIN runs :
        NoTradeStep(r) =>
          /\ Len(cache'.tradeHistory) = Len(cache.tradeHistory)
          /\ cache'.sideBuy = cache.sideBuy ]_vars

\* C11 witness: a ping-pong cycle traded and flipped the side, and the next
\* cycle settled below the threshold with the side still flipped
C11_Witness ==
  /\ strategyName = "pingpong"
  /\ Len(runs) >= 2
  /\ runs[1].outcome = "trade"
  /\ runs[2].outcome = "noTrade"
  /\ ~PctGE(runs[2].profit, config.minPercProfit)
  /\ cache.sideBuy = FALSE

\* a step in which the cache-driven ping-pong cycle r settles as a trade
TradeStep(r) ==
  /\ strategyName = "pingpong"
  /\ runs[r].pc = "quoting"
  /\ runs'[r].pc = "settled"
  /\ runs'[r].outcome = "trade"

\* C12: a successful cycle of the two-token strategy toggles the side once
\* and appends one entry with success = TRUE to tradeHistory.
C12_TradeTogglesSideAndAppendsSuccess ==
  [][ \A r \in DOMAIN runs :
        TradeStep(r) =>
          /\ cache'.sideBuy = ~cache.sideBuy
          /\ Len(cache'.tradeHistory) = Len(cache.tradeHistory) + 1
          /\ cache'.tradeHistory[Len(cache'.tradeHistory)].success = TRUE ]_vars

\* the errors a call of execute can end with after it went past its guard
\* and found routes: raised while the swap was built, submitted or confirmed
ExecutionErrors == {"ExecError", "SendError"}

\* C13: a cycle whose execution fails appends one failed entry to
\* tradeHistory (so the history is not empty once an execution has failed).
C13_FailedExecutionRecorded ==
  ( /\ lastResult.call = "execute"
    /\ ~lastResult.success
    /\ lastResult.error \in ExecutionErrors )
  => /\ Len(cache.tradeHistory) >= 1
     /\ cache.tradeHistory[Len(cache.tradeHistory)].success = FALSE

\* a step in which a call of execute returns for cycle c: from the guard
\* (the cycle was still in simulate) or from one of its awaits
ExecuteReturns(c) ==
  /\ cycles[c].pc \in ExecPcs \cup SimPcs
  /\ cycles'[c].pc = "done"
  /\ lastResult'.call = "execute"

\* C14: an execute call that returns success = FALSE leaves direction and
\* lastTrade unchanged, a successful execute of the ping-pong strategy flips
\* direction once, and no other step changes either of them.
C14_DirectionChangesOnlyOnSuccess ==
  [][ /\ \A c \in DOMAIN cycles :
           ExecuteReturns(c) =>
             IF lastResult'.success
               THEN strategyName = "pingpong" => direction' = Flip(direction)
               ELSE direction' = direction /\ lastTrade' = lastTrade
      /\ (direction' # direction \/ lastTrade' # lastTrade) =>
           \E c \in DOMAIN cycles : ExecuteReturns(c) /\ lastResult'.success ]_vars

\* C14 witness: after one successful ping leg an execution has failed, and
\* the direction and lastTrade of the ping leg are still in place
C14_Witness ==
  /\ strategyName = "pingpong"
  /\ lastResult.call = "execute"
  /\ ~lastResult.success
  /\ lastResult.error \in {"NoRoutes", "QuoteError", "ExecError", "SendError"}
  /\ direction = "pong"
  /\ lastTrade.set

\* C15: end to end, the first ping-pong cycle whose quote clears the minimum
\* executes: currentBalance.tokenA goes down by the amount traded,
\* currentBalance.tokenB goes up by the quoted output, the side flips from
\* buy to sell, and tradeHistory holds one entry with success = TRUE.
C15_ProfitableCycleEndToEnd ==
  ( /\ strategyName = "pingpong"
    /\ Len(runs) = 1
    /\ runs[1].outcome = "trade" )
  => /\ cache.currentBalance.tokenA =
          cache.initialBalance.tokenA - runs[1].amountToTrade
     /\ cache.currentBalance.tokenB = cache.initialBalance.tokenB + runs[1].out
     /\ cache.sideBuy = FALSE
     /\ Len(cache.tradeHistory) = 1
     /\ cache.tradeHistory[1].success = TRUE

\* C16: the output amount a successful execution reports is the amount the
\* landed swap paid out, not the amount the quote estimated.
C16_RecordedOutputIsConfirmedOutput ==
  ( lastResult.call = "execute" /\ lastResult.success )
  => /\ lastResult.outputAmount = fromAtomic(chainOut, config.decimals)
     /\ strategyName = "pingpong" =>
          lastTrade.outputAmount = fromAtomic(chainOut, config.decimals)

\* the profit percentage of a candidate as (out - in) / in * 100
RouteProfit(out, in) == Pct((out - in) * 100, in)

\* the selection is the first maximum: no candidate has a higher profit
\* percentage, and every earlier candidate has a lower one
ChosenIsFirstMaximum ==
  /\ \A j \in DOMAIN selRoutes :
       ~PctGT(RouteProfit(selRoutes[j], selAmount),
              RouteProfit(selRoutes[selChosen], selAmount))
  /\ \A j \in 1..(selChosen - 1) :
       PctGT(RouteProfit(selRoutes[selChosen], selAmount),
             RouteProfit(selRoutes[j], selAmount))

\* the selection over the reordered list is the route (routes are compared
\* on output amount) selected from the list as first given
ChosenSurvivesReordering ==
  selRoutes[selChosen] = selOriginal[MostProfitable(selOriginal, selAmount)]

\* C17 as stated: the selection picks the first maximum of the profit
\* percentage, and selecting over a reordered candidate list gives the same
\* chosen route.
C17_SelectionOrderInvariant ==
  selChosen # 0 => ChosenIsFirstMaximum /\ ChosenSurvivesReordering

\* C17 amended: for a positive trade amount the selection picks the first
\* maximum of the profit percentage and is the same over every reordering
\* of the candidates; for an amount of zero every candidate has profit 0
\* and the selection is the first candidate of the list, whatever it pays.
C17_SelectionOrderInvariantForPositiveAmount ==
  selChosen # 0 =>
    IF selAmount > 0
      THEN ChosenIsFirstMaximum /\ ChosenSurvivesReordering
      ELSE selChosen = 1

\* C17 witness: three candidates with a tie for the maximum at the head of
\* the list were reordered; the maximum now stands behind the lower
\* candidate and is still the choice
C17_Witness ==
  /\ selAmount > 0
  /\ Len(selRoutes) = 3
  /\ Len(selOriginal) = 3
  /\ selOriginal[1] = selOriginal[2]
  /\ selOriginal[3] < selOriginal[1]
  /\ selRoutes[1] = selOriginal[3]
  /\ selRoutes[2] = selOriginal[1]
  /\ selRoutes[3] = selOriginal[1]
  /\ selChosen = 2

\* the number of failed attempts in the log
RECURSIVE FailuresIn(_)
FailuresIn(log) ==
  IF log = << >> THEN 0
  ELSE (IF log[Len(log)] = "ok" THEN 0 ELSE 1) + FailuresIn(SubSeq(log, 1, Len(log) - 1))

\* C18: sendTransactionWithRetry makes at most maxRetries attempts (3 with
\* the default budget); with a budget of at least 1 it returns the
\* signature of the first attempt that succeeds; one back-off delay elapses
\* between two attempts; after maxRetries failed attempts it raises the
\* error of the last attempt and makes no further attempt.
C18_BoundedRetry ==
  /\ retryPc # "idle" =>
       /\ Len(attempts) <= maxRetries
       /\ maxRetries = DefaultMaxRetries => Len(attempts) <= 3
       /\ retries = FailuresIn(attempts)
       /\ \A k \in 1..(Len(attempts) - 1) : attempts[k] # "ok"
  /\ retryPc = "sending" => waits = Len(attempts)
  /\ retryPc = "waiting" => waits = Len(attempts) - 1
  /\ (retryPc = "returned" /\ maxRetries >= 1) =>
       /\ Len(attempts) >= 1
       /\ attempts[Len(attempts)] = "ok"
       /\ retryResult = [kind |-> "signature", of |-> Len(attempts)]
       /\ waits = Len(attempts) - 1
  /\ retryPc = "thrown" =>
       /\ Len(attempts) = maxRetries
       /\ \A k \in 1..Len(attempts) : attempts[k] # "ok"
       /\ retryResult = [kind |-> attempts[Len(attempts)], of |-> maxRetries]
       /\ waits = maxRetries - 1

\* C18 witness: with the default budget the third attempt succeeded after
\* two failures and two delays
C18_Witness ==
  /\ maxRetries = DefaultMaxRetries
  /\ retryPc = "returned"
  /\ attempts = << "timeout", "blockhashExpired", "ok" >>
  /\ retryResult = [kind |-> "signature", of |-> 3]
  /\ waits = 2

\* C19: a transient failure of the transaction submission is retried inside
\* the cycle: the first rejected submission of a cycle (execute submits
\* once, so every submission is the first) neither ends the cycle with a
\* failed result nor increments the error count.
C19_SubmissionFailureRetriedInsideCycle ==
  [][ \A c \in DOMAIN cycles :
        (cycles[c].pc = "execSend" /\ cycles'[c].pc # "execSend") =>
          /\ errorCount' = errorCount
          /\ ~( /\ cycles'[c].pc = "done"
                /\ lastResult'.call = "execute"
                /\ lastResult'.error = "SendError" ) ]_vars

\* the token a leg sells: the ping leg swaps A -> B, the pong leg B -> A
LegInput(leg) == IF leg = "ping" THEN "tokenA" ELSE "tokenB"
LegOutput(leg) == IF leg = "ping" THEN "tokenB" ELSE "tokenA"

\* C20: consecutive successful executions alternate the swap direction: the
\* tokens of the last executed swap are those of the leg that was current
\* when it ran (the opposite of the direction flag after the flip).
C20_ExecutedTokensFollowDirection ==
  ( strategyName = "pingpong" /\ lastTrade.set )
  => /\ lastTrade.inputToken = LegInput(Flip(direction))
     /\ lastTrade.outputToken = LegOutput(Flip(direction))

\* C21: EventBus is a singleton: at most one bus is ever constructed, every
\* reference a component got from getInstance is that bus, and so an emit
\* through any reference works on the listeners registered through any other.
C21_SingleBusInstance ==
  /\ constructed <= 1
  /\ busInstance = constructed
  /\ \A c \in Components : refs[c] \in {0, busInstance}
  /\ \A c1, c2 \in Components :
       (refs[c1] # 0 /\ refs[c2] # 0) => refs[c1] = refs[c2]

\* C21 witness: both components hold the bus, the only registration was
\* made by one and an emit through the other invoked it
C21_Witness ==
  /\ emitterKind = "node"
  /\ refs["app"] = 1
  /\ refs["loader"] = 1
  /\ lastOnBy = "app"
  /\ lastEmit.via = "loader"
  /\ lastEmit.event = "system:ready"
  /\ lastEmit.invoked = << [h |-> "h1", arg |-> "p1"] >>
  /\ listeners[1]["system:ready"] = << Entry("h1", FALSE) >>
  /\ Registered(1) = 1

\* a step that is an emit call, and the listener array it ran over
EmitStep == lastEmit'.via \in Components
EmitList == listeners[refs[lastEmit'.via]][lastEmit'.event]

\* C22: emit(event, payload) invokes every handler registered for that event
\* at the time of the call, each with the payload, in registration order and
\* before emit returns; handlers of other events are not invoked.
C22_EmitInvokesAllInOrder ==
  [][ EmitStep =>
        lastEmit'.invoked =
          [ i \in 1..Len(EmitList) |->
              [h |-> EmitList[i].h, arg |-> lastEmit'.payload] ] ]_vars

\* C23: a handler that raises during an EventBus emit is contained: emit
\* does not raise to its caller, and every handler registered after the
\* raising one is still invoked.
C23_RaisingHandlerContained ==
  [][ (EmitStep /\ emitterKind = "node") =>
        /\ ~lastEmit'.threw
        /\ \A i \in DOMAIN EmitList :
             (\E j \in 1..(i - 1) : Raises(EmitList[j].h))
               => /\ i <= Len(lastEmit'.invoked)
                  /\ lastEmit'.invoked[i].h = EmitList[i].h ]_vars

\* C24: a handler registered with once is invoked by the first emit of its
\* event after the registration and by no later one: that emit calls it and
\* leaves no once registration of the event behind.
C24_OnceInvokedOnFirstEmitOnly ==
  [][ EmitStep =>
        /\ \A i \in DOMAIN EmitList :
             EmitList[i].once
               => /\ i <= Len(lastEmit'.invoked)
                  /\ lastEmit'.invoked[i].h = EmitList[i].h
        /\ \A i \in DOMAIN listeners'[refs[lastEmit'.via]][lastEmit'.event] :
             ~listeners'[refs[lastEmit'.via]][lastEmit'.event][i].once ]_vars

\* the registrations of listener h in a listener array
EntriesOf(list, h) == { i \in DOMAIN list : list[i].h = h }

C26_RemoveAllListenersScope ==
  [][ /\ \A c \in Components, e \in BusEvents :
           BusRemoveAllListeners(c, e) =>
             /\ listeners'[refs[c]][e] = << >>
             /\ \A e2 \in BusEvents \ {e} :
                  listeners'[refs[c]][e2] = listeners[refs[c]][e2]
      /\ \A c \in Components :
           BusRemoveAll(c) =>
             \A e \in BusEvents : listeners'[refs[c]][e] = << >>
      /\ (EmitStep /\ EmitList = << >>) =>
           (lastEmit'.invoked = << >> /\ ~lastEmit'.threw) ]_vars

\* C26 witness: removeAllListeners("system:ready") dropped two handlers and
\* the handler of the other event is still registered
C26_Witness ==
  /\ busInstance = 1
  /\ lastRemoval = [op |-> "removeAllListeners", event |-> "system:ready",
                     h |-> "none", n |-> 2]
  /\ listeners[1]["system:ready"] = << >>
  /\ listeners[1]["trade:complete"] = << Entry("h1", FALSE) >>

\* C27: a registration under a name that is already registered fails with
\* the naming-collision error and changes nothing: the plugin registered
\* before stays, initialize of the new one is not called and no
\* plugin:loaded goes out; on the Application and on the plugin loader alike.
C27_NameCollisionRejected ==
  lastRegister.had # "none" =>
    /\ lastRegister.result = "collision"
    /\ ~lastRegister.initialized
    /\ ~lastRegister.emitted
    /\ MapGet(registry[lastRegister.via], PluginName(lastRegister.obj))
         = lastRegister.had

\* the names a lifecycle call emitted the event type for
EmittedFor(call, type) ==
  { call.emitted[i].name : i \in { j \in DOMAIN call.emitted :
                                     call.emitted[j].type = type } }

\* C28: a start (stop) call over the plugins never ends by an exception: it
\* returns after start (stop) was attempted on every registered plugin, with
\* plugin:error emitted for each plugin that failed and plugin:started
\* (plugin:stopped) for exactly those that did not.
C28_LifecycleFailureIsolated ==
  [][ (life.phase = "running" /\ life'.phase # "running") =>
        /\ life'.phase = "returned"
        /\ Len(life'.attempted) = Len(registry[life.via])
        /\ \A i \in DOMAIN life'.attempted :
             life'.attempted[i] = PluginName(registry[life.via][i])
        /\ life'.failed \subseteq EmittedFor(life', "plugin:error")
        /\ EmittedFor(life', DoneEvent(life.op))
             = NamesIn(registry[life.via]) \ life'.failed ]_vars

\* C29: a plugin whose initialize raises does not abort the startup of the
\* bot: the step that initializes the plugins calls initialize on every
\* enabled plugin and leaves the bot on its way to ready, not in shutdown;
\* a plugin whose cleanup raises does not keep shutdown from going on.
C29_PluginFailureNonFatal ==
  [][ /\ (corePc = "loaded" /\ corePc' # "loaded") =>
           /\ corePc' = "initialized"
           /\ coreInit'.initialized = EnabledIn(corePlugins)
      /\ (corePc = "shutdown" /\ corePc' # "shutdown") =>
           /\ corePc' = "closing"
           /\ coreInit'.cleaned = EnabledIn(corePlugins) ]_vars

\* C30: when the process has exited on a termination signal, no cycle was
\* cut off: every cycle that had been started has settled before the exit.
C30_SignalLetsCycleSettle ==
  exited = "sigint" => \A c \in DOMAIN cycles : ~InFlight(c)

\* the callback c emitted exactly one more event in this step, of that type
EmitsOne(c, type) ==
  /\ Len(tradeEvents'[c]) = Len(tradeEvents[c]) + 1
  /\ tradeEvents'[c][Len(tradeEvents'[c])].type = type

\* C31: every execution attempt of a cycle is bracketed by events: on
\* entering execute the callback emits trade:start, on leaving it emits
\* exactly one event, trade:complete when the execution succeeded and
\* trade:error when it failed.
C31_ExecutionBracketedByEvents ==
  [][ \A c \in DOMAIN cycles :
        /\ (cycles[c].pc \notin ExecPcs /\ cycles'[c].pc \in ExecPcs)
             => EmitsOne(c, "trade:start")
        /\ (cycles[c].pc \in ExecPcs /\ cycles'[c].pc = "done")
             => EmitsOne(c, IF lastResult'.success THEN "trade:complete"
                                                   ELSE "trade:error") ]_vars

\* C32: in simulation-only mode no callback is ever inside strategy.execute,
\* no step changes the direction, lastTrade or error count of the strategy,
\* and a callback has emitted nothing until it completes and then exactly
\* one simulation:complete, carrying the result simulate returned.
C32_SimulationModeSkipsExecution ==
  [][ simulation =>
        /\ strategyVars' = strategyVars
        /\ \A c \in DOMAIN cycles' :
             /\ cycles'[c].pc \notin ExecPcs
             /\ cycles'[c].pc # "done" => tradeEvents'[c] = << >>
             /\ cycles'[c].pc = "done" =>
                  /\ Len(tradeEvents'[c]) = 1
                  /\ tradeEvents'[c][1].type = "simulation:complete"
             /\ (c \in DOMAIN cycles /\ cycles[c].pc # "done" /\ cycles'[c].pc = "done")
                  => /\ lastResult'.call = "simulate"
                     /\ tradeEvents'[c][1].success = lastResult'.success ]_vars

\* C32 witness: in simulation mode a profitable simulation and a failed one
\* have completed, each with its one simulation:complete event
C32_Witness ==
  /\ simulation
  /\ Len(cycles) = 2
  /\ cycles[1].pc = "done"
  /\ cycles[2].pc = "done"
  /\ tradeEvents[1] = << [type |-> "simulation:complete", success |-> TRUE] >>
  /\ tradeEvents[2] = << [type |-> "simulation:complete", success |-> FALSE] >>
  /\ direction = "ping"
  /\ errorCount = 0

\* C33: a strategy whose wallet could not be loaded never gets a cycle: with
\* no wallet the startup has aborted and no interval callback is started.
C33_NoCycleWithoutWallet ==
  ~wallet => cycles = << >>


\* C34: saveTradeEntry never raises to its caller (store not connected, no
\* client obtained, or insert failed), and a client that was obtained has
\* been released when the call is over.
C34_SaveNeverRaisesAndReleases ==
  \A s \in DOMAIN saves :
    /\ saves[s].pc # "raised"
    /\ (saves[s].pc = "returned" => saves[s].released = saves[s].acquired)
    /\ (saves[s].released => saves[s].acquired)

\* a call returned without a pool, one returned after a failed insert with
\* its client released
C34_Witness ==
  /\ Len(saves) = 2
  /\ saves[1] = [pc |-> "returned", acquired |-> TRUE, released |-> TRUE, inserted |-> FALSE]
  /\ saves[2] = NewSave("returned")
  /\ pgPool = "null"
  /\ closePc = "closed"

\* C35: in the multi-route cycle a quote that returns exactly one route is
\* evaluated: that route is the selected route and the cycle settles on the
\* threshold test ("trade" or "noTrade"), never as a cycle that was skipped
\* for lack of routes.
C35_SingleRouteEvaluated ==
  strategyName = "arbitrage" =>
    \A r \in DOMAIN runs : runs[r].outcome # "notEnoughRoutes"

\* C36: in trading mode the route a cycle submits for execution is the route
\* its evaluation selected: when execute obtains the route it goes on to
\* swap, that route is the one simulate quoted and tested against the
\* threshold.
C36_ExecutesEvaluatedRoute ==
  [][\A c \in DOMAIN cycles :
       (cycles[c].pc = "execQuote" /\ cycles'[c].pc = "execSwap")
         => cycles'[c].route = quoted[c]]_vars

\* C37: execute returns success = true only if the submitted transaction was
\* confirmed without an error: a successful result is never the result of a
\* swap whose confirmation reported a transaction error (in which case the
\* chain paid out nothing).
C37_SuccessOnlyIfConfirmedWithoutError ==
  (lastResult.call = "execute" /\ lastResult.success) => chainOut # 0

\* C38: between one start of the Application and its next stop, start is
\* invoked at most once on each plugin and system:ready is emitted at most
\* once, also when start() is called again while an earlier call is still
\* awaiting a plugin; symmetrically for stop and system:shutdown.
C38_LifecycleAtMostOnce ==
  /\ \A n \in DOMAIN appTally.starts :
       appTally.starts[n] <= 1 /\ appTally.stops[n] <= 1
  /\ appTally.ready <= 1
  /\ appTally.shutdown <= 1

\* C39: shutdown releases the collaborators at most once, also when it is
\* triggered again while an earlier call is still awaiting: the cleanup of
\* the plugins runs once and the database service is closed once.
C39_ShutdownReleasesOnce ==
  /\ coreCounts.cleanups <= 1
  /\ coreCounts.closes <= 1

\* C40: in core/EventEmitter, off(event, h) cancels a handler registered with
\* once(event, h): when h's only registration for the event is a once
\* registration, off leaves no registration of h, so a later emit (which
\* calls registered entries only) does not invoke h.
C40_OffCancelsOnceRegistration ==
  [][ \A c \in Components, e \in BusEvents, h \in Handlers :
        ( /\ BusOff(c, e, h)
          /\ emitterKind = "custom"
          /\ Cardinality(EntriesOf(listeners[refs[c]][e], h)) = 1
          /\ \A i \in EntriesOf(listeners[refs[c]][e], h) :
               listeners[refs[c]][e][i].once )
          => EntriesOf(listeners'[refs[c]][e], h) = {} ]_vars

====
